---- MODULE Spec2Model ----
(***************************************************************************)
(* Labor-Report-Tool: reconciliation of the ProLogistix (PLX, "Primary")   *)
(* and Crescent ("Secondary") hour reports.                                *)
(*                                                                         *)
(* Two programs are modelled:                                              *)
(*   - streamlit_app.py: the session (plx_df, cres_df, disc_df), one       *)
(*     action per user interaction, each followed by the whole script run. *)
(*   - discrepancy_checker.py: the comparison, correction overlay and      *)
(*     e-mail summary functions, applied to bounded inputs.                *)
(*                                                                         *)
(* Representation.                                                         *)
(*   Text is a sequence of one-character strings.  A missing text value is *)
(*   the one-element sequence NaN or None (no text contains a              *)
(*   multi-character element, so they equal no text).                      *)
(*   Hours are fixed-point numbers counted in ticks of 5e-7 hour, so that  *)
(*   the tolerance 1e-6 of the source is Eps = 2 ticks and differences     *)
(*   below, at and above the tolerance are all representable.              *)
(*   A value handed to to_number / normalize_eid is tagged by its Python   *)
(*   type: [str |-> text], [num |-> n] or [nan |-> TRUE] (None / NaN).     *)
(*                                                                         *)
(* Exceptions.                                                             *)
(*   Three statements raise on every run that reaches them:                *)
(*   merged["Total_Hours_PLX"] (streamlit_app.py 301; pandas leaves the    *)
(*   column named Total_Hours), the use of                                 *)
(*   st.session_state.get("plx_editor") as a table (streamlit_app.py       *)
(*   469-474; the widget state is a record of edits) and re.IGNORECASE     *)
(*   (discrepancy_checker.py 83; re is not imported).  The model follows   *)
(*   the computation these statements name: the PLX total column, the      *)
(*   edited table, the flag.  Exceptions that depend on the input (a file  *)
(*   without badge column, a frame without columns) are modelled where     *)
(*   they occur and end the run.                                           *)
(***************************************************************************)
EXTENDS Integers, Sequences, FiniteSets, TLC

\* ------------------------------------------------------------------------
\* Text helpers
\* ------------------------------------------------------------------------

Digits == {"0", "1", "2", "3", "4", "5", "6", "7", "8", "9"}

UpperLetters == <<"A","B","C","D","E","F","G","H","I","J","K","L","M",
                  "N","O","P","Q","R","S","T","U","V","W","X","Y","Z">>

LowerLetters == <<"a","b","c","d","e","f","g","h","i","j","k","l","m",
                  "n","o","p","q","r","s","t","u","v","w","x","y","z">>

Letters == {UpperLetters[i] : i \in 1..26} \cup {LowerLetters[i] : i \in 1..26}

Range(s) == {s[i] : i \in DOMAIN s}

\* str.upper() on one character
UpperChar(c) ==
    IF \E i \in 1..26 : LowerLetters[i] = c
    THEN UpperLetters[CHOOSE i \in 1..26 : LowerLetters[i] = c]
    ELSE c

Upper(s) == [i \in DOMAIN s |-> UpperChar(s[i])]

NaN == <<"NaN">>

None == <<"None">>

IsMissing(t) == t = NaN \/ t = None

\* str.strip(): leading and trailing blanks removed
RECURSIVE LStrip(_)
LStrip(s) == IF s # <<>> /\ Head(s) = " " THEN LStrip(Tail(s)) ELSE s

RECURSIVE RStrip(_)
RStrip(s) ==
    IF s # <<>> /\ s[Len(s)] = " " THEN RStrip(SubSeq(s, 1, Len(s) - 1)) ELSE s

Strip(s) == RStrip(LStrip(s))

\* re.sub(r"[^0-9]", "", s)
RECURSIVE OnlyDigits(_)
OnlyDigits(s) ==
    IF s = <<>> THEN <<>>
    ELSE IF Head(s) \in Digits THEN <<Head(s)>> \o OnlyDigits(Tail(s))
    ELSE OnlyDigits(Tail(s))

\* s.replace(",", "")
RECURSIVE DropCommas(_)
DropCommas(s) ==
    IF s = <<>> THEN <<>>
    ELSE IF Head(s) = "," THEN DropCommas(Tail(s))
    ELSE <<Head(s)>> \o DropCommas(Tail(s))

DigitVal(c) ==
    CASE c = "0" -> 0 [] c = "1" -> 1 [] c = "2" -> 2 [] c = "3" -> 3
      [] c = "4" -> 4 [] c = "5" -> 5 [] c = "6" -> 6 [] c = "7" -> 7
      [] c = "8" -> 8 [] c = "9" -> 9

RECURSIVE DecimalValue(_)
DecimalValue(s) ==
    IF s = <<>> THEN 0
    ELSE 10 * DecimalValue(SubSeq(s, 1, Len(s) - 1)) + DigitVal(s[Len(s)])

AllDigits(s) == s # <<>> /\ \A i \in DOMAIN s : s[i] \in Digits

\* float(text) for the texts of the model's alphabet (digits, sign, blanks,
\* letters): an optional sign followed by digits parses, anything else
\* raises ValueError.
FloatParses(s) ==
    \/ AllDigits(s)
    \/ Len(s) >= 2 /\ s[1] \in {"-", "+"} /\ AllDigits(Tail(s))

FloatValue(s) ==
    IF s[1] = "-" THEN 0 - DecimalValue(Tail(s))
    ELSE IF s[1] = "+" THEN DecimalValue(Tail(s))
    ELSE DecimalValue(s)

\* ------------------------------------------------------------------------
\* streamlit_app.py helpers
\* ------------------------------------------------------------------------

Str(t) == [str |-> t]

Num(n) == [num |-> n]

NaNCell == [nan |-> TRUE]

IsStr(x) == "str" \in DOMAIN x

IsNum(x) == "num" \in DOMAIN x

to_number(x) ==
    IF IsNum(x) THEN x.num
    ELSE IF IsStr(x) THEN
        LET s == Strip(x.str) IN
        IF s = <<>> THEN 0
        ELSE LET t == DropCommas(s) IN
             IF FloatParses(Strip(t)) THEN FloatValue(Strip(t)) ELSE 0
    ELSE 0

\* normalize_eid without the removal of the non-digits
normalize_eid_stripped(eid) ==
    IF IsStr(eid) THEN Strip(eid.str) ELSE <<>>

normalize_eid(eid) ==
    IF IsStr(eid) THEN OnlyDigits(Strip(eid.str)) ELSE <<>>

\* (?i)^PLX-([0-9]{1,})-([A-Za-z]{3})$ against the text b
BadgeMatches(b) ==
    LET n == Len(b) IN
    /\ n >= 9
    /\ Upper(SubSeq(b, 1, 3)) = <<"P", "L", "X">>
    /\ b[4] = "-"
    /\ AllDigits(SubSeq(b, 5, n - 4))
    /\ b[n - 3] = "-"
    /\ \A i \in (n - 2)..n : b[i] \in Letters

BadgeDigits(b) == SubSeq(b, 5, Len(b) - 4)

BadgeLast3(b) == SubSeq(b, Len(b) - 2, Len(b))

\* the leading maximal run of digits of s
RECURSIVE DigitRun(_)
DigitRun(s) ==
    IF s # <<>> /\ Head(s) \in Digits THEN <<Head(s)>> \o DigitRun(Tail(s))
    ELSE <<>>

\* re.findall(r"([0-9]{3,})", s): the maximal digit runs of length >= 3
RECURSIVE FindDigitRuns3(_)
FindDigitRuns3(s) ==
    IF s = <<>> THEN <<>>
    ELSE LET run == DigitRun(s) IN
         IF run = <<>> THEN FindDigitRuns3(Tail(s))
         ELSE LET rest == SubSeq(s, Len(run) + 1, Len(s)) IN
              IF Len(run) >= 3 THEN <<run>> \o FindDigitRuns3(rest)
              ELSE FindDigitRuns3(rest)

\* extract_eid_from_badge that takes the first digit run of any badge and
\* calls it valid
extract_eid_from_badge_lenient(badge) ==
    IF ~IsStr(badge) THEN <<<<>>, FALSE>>
    ELSE IF FindDigitRuns3(Strip(badge.str)) # <<>>
         THEN <<FindDigitRuns3(Strip(badge.str))[1], TRUE>>
         ELSE <<<<>>, FALSE>>

\* returns <<eid_digits, valid_flag>>; badge is a tagged value
extract_eid_from_badge(badge) ==
    IF ~IsStr(badge) THEN <<<<>>, FALSE>>
    ELSE LET b == Strip(badge.str) IN
         IF ~BadgeMatches(b) THEN
             LET digits == FindDigitRuns3(b) IN
             IF digits # <<>> THEN <<digits[1], FALSE>> ELSE <<<<>>, FALSE>>
         ELSE <<BadgeDigits(b), TRUE>>

\* ------------------------------------------------------------------------
\* Raw tables.  A raw table is [columns |-> sequence of header texts,
\* rows |-> sequence of functions header -> cell]; a cell is a text or None
\* (read with dtype=str, NaN replaced by None).  Header texts are atomic
\* strings of a fixed vocabulary; the header tests of the source are
\* evaluated on that vocabulary.
\* ------------------------------------------------------------------------

DAY_NAMES == <<"Sunday", "Monday", "Tuesday", "Wednesday", "Thursday",
               "Friday", "Saturday">>

DayAbbrevs == <<"Sun", "Mon", "Tue", "Wed", "Thu", "Fri", "Sat">>

DaySet == {DayAbbrevs[i] : i \in 1..7}

\* day_abbrev of load_plx
day_abbrev(day) == DayAbbrevs[CHOOSE i \in 1..7 : DAY_NAMES[i] = day]

\* The PLX headers of the model are "File", "ID", "Name", "Mon Reg",
\* "Mon OT", "Tue Reg" and "OT".

\* "file" in cl or "eid" in cl or re.search(r"\bemployee\s*id\b", cl)
HeaderIsEid(c) == c \in {"File"}

\* "name" in cl
HeaderIsName(c) == c \in {"Name"}

\* re.match(r"(?i)file\s*#?$", c) or re.match(r"(?i)id$", c)
HeaderIsEidFallback(c) == c \in {"File", "ID"}

\* the day of a header: alias as a whole word, else full day name contained
HeaderDay(c) ==
    CASE c \in {"Mon Reg", "Mon OT"} -> "Monday"
      [] c \in {"Tue Reg"} -> "Tuesday"
      [] OTHER -> "none"

\* re.search(r"(?i)\bOT\b|\bovertime\b", col)
HeaderIsOT(c) == c \in {"Mon OT", "OT"}

\* next(...): the index of the first element of s from i on that satisfies
\* Test, 0 when there is none
RECURSIVE SelectFirstIdx(_, _, _)
SelectFirstIdx(s, Test(_), i) ==
    IF i > Len(s) THEN 0
    ELSE IF Test(s[i]) THEN i
    ELSE SelectFirstIdx(s, Test, i + 1)

\* {DayName: {"reg": [cols], "ot": [cols]}}, empty days dropped
detect_plx_day_columns(columns) ==
    LET reg(d) == SelectSeq(columns, LAMBDA c : HeaderDay(c) = d /\ ~HeaderIsOT(c))
        ot(d) == SelectSeq(columns, LAMBDA c : HeaderDay(c) = d /\ HeaderIsOT(c))
        days == {DAY_NAMES[i] : i \in 1..7}
    IN  [d \in {e \in days : reg(e) # <<>> \/ ot(e) # <<>>} |->
            [reg |-> reg(d), ot |-> ot(d)]]

RECURSIVE SumSeq(_)
SumSeq(s) == IF s = <<>> THEN 0 ELSE Head(s) + SumSeq(Tail(s))

CellTag(c) == IF IsMissing(c) THEN NaNCell ELSE Str(c)

\* numeric_df[cols].sum(axis=1) for one row
RowSum(row, cols) == SumSeq([i \in DOMAIN cols |-> to_number(CellTag(row[cols[i]]))])

\* fillna("").astype(str).str.strip()
TextCell(c) == IF IsMissing(c) THEN <<>> ELSE Strip(c)

\* the index of eid_col in the columns of the file, 0 when the loop and
\* the fallback loop find none
PlxEidIdx(columns) ==
    IF SelectFirstIdx(columns, HeaderIsEid, 1) # 0
    THEN SelectFirstIdx(columns, HeaderIsEid, 1)
    ELSE SelectFirstIdx(columns, HeaderIsEidFallback, 1)

\* eid_col; df["EID"] = "" when no column was found
PlxEidCol(columns) ==
    IF PlxEidIdx(columns) = 0 THEN "EID" ELSE columns[PlxEidIdx(columns)]

\* name_col; df["Name"] = "" when no column was found
PlxNameCol(columns) ==
    IF SelectFirstIdx(columns, HeaderIsName, 1) = 0 THEN "Name"
    ELSE columns[SelectFirstIdx(columns, HeaderIsName, 1)]

\* df.columns after the two assignments
PlxColumns(columns) ==
    (IF PlxEidIdx(columns) = 0 THEN Append(columns, "EID") ELSE columns)
    \o (IF SelectFirstIdx(columns, HeaderIsName, 1) = 0 THEN <<"Name">> ELSE <<>>)

\* the non-day OT total columns
ot_total_candidates(cols, day_map) ==
    SelectSeq(cols, LAMBDA c :
        /\ HeaderIsOT(c)
        /\ \A d \in DOMAIN day_map : c \notin Range(day_map[d].ot))

\* one row of df with the added columns holding ""
PlxFullRow(row, cols) == [c \in Range(cols) |-> IF c \in DOMAIN row THEN row[c] ELSE <<>>]

\* the columns of cs that numeric_df holds as numbers
NumericCols(cs, eid_col, name_col) ==
    SelectSeq(cs, LAMBDA c : c \notin {eid_col, name_col})

\* reg_by_day / ot_by_day for one row, keyed by the day abbreviation;
\* kind is "reg" or "ot"
HoursByDay(row, day_map, kind, eid_col, name_col) ==
    [a \in DaySet |->
        LET day == CHOOSE d \in Range(DAY_NAMES) : day_abbrev(d) = a IN
        IF day \in DOMAIN day_map /\ day_map[day][kind] # <<>>
        THEN RowSum(row, NumericCols(day_map[day][kind], eid_col, name_col))
        ELSE 0]

\* sum over DAY_NAMES of a per-day map
SumDays(by_day) == SumSeq([i \in 1..7 |-> by_day[DayAbbrevs[i]]])

\* norm for one row, from its totals and per-day values
PlxNormRecord(eid, name, reg_total, ot_total, reg_by_day, ot_by_day) ==
    [EID |-> normalize_eid(CellTag(eid)),
     Name |-> TextCell(name),
     Reg_Hours |-> reg_total,
     OT_Hours |-> ot_total,
     Total_Hours |-> reg_total + ot_total,
     DayReg |-> [a \in DaySet |-> Num(reg_by_day[a])],
     DayOT |-> [a \in DaySet |-> Num(ot_by_day[a])]]

PlxNormFromDays(row, eid_col, name_col, reg_by_day, ot_by_day, ot_extra) ==
    PlxNormRecord(row[eid_col], row[name_col], SumDays(reg_by_day),
                  SumDays(ot_by_day) + ot_extra, reg_by_day, ot_by_day)

PlxNormRow(row, eid_col, name_col, day_map, ot_cols) ==
    PlxNormFromDays(row, eid_col, name_col,
                    HoursByDay(row, day_map, "reg", eid_col, name_col),
                    HoursByDay(row, day_map, "ot", eid_col, name_col),
                    IF ot_cols # <<>>
                    THEN RowSum(row, NumericCols(ot_cols, eid_col, name_col))
                    ELSE 0)

\* norm before and after "Drop empties"
PlxNormAll(rows, cols, eid_col, name_col, day_map) ==
    SelectSeq([i \in DOMAIN rows |->
                  PlxNormRow(PlxFullRow(rows[i], cols), eid_col, name_col, day_map,
                             ot_total_candidates(cols, day_map))],
              LAMBDA r : ~(r.EID = <<>> /\ r.Total_Hours = 0))

load_plx(file) ==
    PlxNormAll(file.rows, PlxColumns(file.columns), PlxEidCol(file.columns),
               PlxNameCol(file.columns),
               detect_plx_day_columns(PlxColumns(file.columns)))

\* The Crescent headers of the model are "Badge", "Payable Hours", "Hours",
\* "Line" and "Name".

\* "badge" in cl
HeaderIsBadge(c) == c \in {"Badge"}

\* "payable" in cl or (("hours" in cl or "hrs" in cl) and "pay" in cl)
HeaderIsPayable(c) == c \in {"Payable Hours"}

\* re.search(r"(?i)\b(payable\s*hours|hours|hrs)\b", c)
HeaderIsHoursFallback(c) == c \in {"Payable Hours", "Hours"}

\* "line" in cl
HeaderIsLine(c) == c \in {"Line"}

\* the index of hours_col, 0 when the loop and the fallback loop find none
CresHoursIdx(columns) ==
    IF SelectFirstIdx(columns, HeaderIsPayable, 1) # 0
    THEN SelectFirstIdx(columns, HeaderIsPayable, 1)
    ELSE SelectFirstIdx(columns, HeaderIsHoursFallback, 1)

\* the cell of the column with index idx; "" for a column the loader added
CresCell(row, columns, idx) == IF idx # 0 THEN row[columns[idx]] ELSE <<>>

\* one row of out, from the stripped badge b and the result ext of
\* extract_eid_from_badge
CresOutRecord(b, ext, line, hours, name) ==
    [Badge |-> b,
     EID |-> normalize_eid(Str(ext[1])),
     EID_Valid |-> ext[2],
     Last3 |-> IF BadgeMatches(Strip(b)) THEN Upper(BadgeLast3(Strip(b))) ELSE <<>>,
     Line |-> TextCell(line),
     Payable_Hours |-> hours,
     Name |-> TextCell(name)]

CresOutOfBadge(b, line, hours, name) ==
    CresOutRecord(b, extract_eid_from_badge(Str(b)), line, hours, name)

CresOutRow(row, columns, badgeIdx, hoursIdx, lineIdx, nameIdx) ==
    CresOutOfBadge(TextCell(CresCell(row, columns, badgeIdx)),
                   CresCell(row, columns, lineIdx),
                   IF hoursIdx # 0
                   THEN to_number(CellTag(CresCell(row, columns, hoursIdx)))
                   ELSE 0,
                   CresCell(row, columns, nameIdx))

\* result [ok |-> FALSE] stands for the KeyError of df[None]
load_crescent(file) ==
    IF SelectFirstIdx(file.columns, HeaderIsBadge, 1) = 0
    THEN [ok |-> FALSE, df |-> <<>>]
    ELSE [ok |-> TRUE,
          df |-> SelectSeq(
                    [i \in DOMAIN file.rows |->
                        CresOutRow(file.rows[i], file.columns,
                                   SelectFirstIdx(file.columns, HeaderIsBadge, 1),
                                   CresHoursIdx(file.columns),
                                   SelectFirstIdx(file.columns, HeaderIsLine, 1),
                                   SelectFirstIdx(file.columns, HeaderIsName, 1))],
                    LAMBDA r : ~(r.Badge = <<>> /\ r.Payable_Hours = 0))]

\* ------------------------------------------------------------------------
\* Ordering of texts (groupby and outer merge sort their keys)
\* ------------------------------------------------------------------------

\* the characters of the model in code-point order
CharOrder == <<" ", "+", ",", "-">>
             \o <<"0", "1", "2", "3", "4", "5", "6", "7", "8", "9">>
             \o UpperLetters \o LowerLetters

CharRank(c) == CHOOSE i \in DOMAIN CharOrder : CharOrder[i] = c

RECURSIVE TextLess(_, _)
TextLess(a, b) ==
    IF b = <<>> THEN FALSE
    ELSE IF a = <<>> THEN TRUE
    ELSE IF Head(a) = Head(b) THEN TextLess(Tail(a), Tail(b))
    ELSE CharRank(Head(a)) < CharRank(Head(b))

\* the texts of the finite set S in ascending order
RECURSIVE SortTexts(_)
SortTexts(S) ==
    IF S = {} THEN <<>>
    ELSE LET m == CHOOSE x \in S : \A y \in S \ {x} : TextLess(x, y)
         IN  <<m>> \o SortTexts(S \ {m})

\* concatenation of a sequence of sequences
RECURSIVE Flatten(_)
Flatten(ss) == IF ss = <<>> THEN <<>> ELSE Head(ss) \o Flatten(Tail(ss))

\* sum of the field values f(r) over the rows of t
SumOver(t, f(_)) == SumSeq([i \in DOMAIN t |-> f(t[i])])

\* ------------------------------------------------------------------------
\* Discrepancy detection (streamlit_app.py)
\* ------------------------------------------------------------------------

\* the tolerance 1e-6 in ticks
Eps == 2

\* groupby(["EID","Name"], dropna=False).sum(): one row per (EID, Name),
\* sorted by EID, then Name
summarize_plx(plx) ==
    LET eids == SortTexts({plx[i].EID : i \in DOMAIN plx})
        names(e) == SortTexts({plx[i].Name : i \in {j \in DOMAIN plx : plx[j].EID = e}})
        grp(e, n) == SelectSeq(plx, LAMBDA r : r.EID = e /\ r.Name = n)
        row(e, n) == [EID |-> e, Name |-> n,
                      Reg_Hours |-> SumOver(grp(e, n), LAMBDA r : r.Reg_Hours),
                      OT_Hours |-> SumOver(grp(e, n), LAMBDA r : r.OT_Hours),
                      Total_Hours |-> SumOver(grp(e, n), LAMBDA r : r.Total_Hours)]
    IN  Flatten([i \in DOMAIN eids |->
                    [j \in DOMAIN names(eids[i]) |-> row(eids[i], names(eids[i])[j])]])

\* rows with a non-empty EID, grouped by EID, Payable_Hours summed
summarize_crescent(cres) ==
    LET valid == SelectSeq(cres, LAMBDA r : r.EID # <<>>)
        eids == SortTexts({valid[i].EID : i \in DOMAIN valid})
    IN  [i \in DOMAIN eids |->
            [EID |-> eids[i],
             Payable_Hours |->
                 SumOver(SelectSeq(valid, LAMBDA r : r.EID = eids[i]),
                         LAMBDA r : r.Payable_Hours)]]

\* next((x for x in s if x), ""): the first non-empty text of the sequence
FirstTruthy(s) ==
    LET idx == SelectFirstIdx(s, LAMBDA x : x # <<>>, 1)
    IN  IF idx = 0 THEN <<>> ELSE s[idx]

\* r.get(col, "") or "": NaN is truthy and stays, None and "" give ""
OrEmpty(x) == IF x = None THEN <<>> ELSE x

Abs(n) == IF n < 0 THEN 0 - n ELSE n

\* the category chain of the loop over merged rows; "" stands for continue
Categorize(plx_total, cres_total) ==
    IF plx_total > 0 /\ cres_total = 0 THEN "PLX-only"
    ELSE IF plx_total = 0 /\ cres_total > 0 THEN "Crescent-only"
    ELSE IF Abs(plx_total - cres_total) > Eps THEN "Mismatched Hours"
    ELSE ""

InvalidNote == "Badge format invalid; cannot match to EID"

\* Total_Hours_PLX names the PLX total column of the outer merge, as the
\* code does (pandas itself leaves the column named Total_Hours, the
\* suffix being applied to overlapping names only).
\* plx_sum.merge(cres_sum, on="EID", how="outer"), missing totals filled
\* with 0.0; the columns the loop reads are kept
OuterMerge(plx_sum, cres_sum) ==
    LET keys == SortTexts({plx_sum[i].EID : i \in DOMAIN plx_sum}
                          \cup {cres_sum[i].EID : i \in DOMAIN cres_sum})
        payable(e) ==
            IF \E i \in DOMAIN cres_sum : cres_sum[i].EID = e
            THEN cres_sum[CHOOSE i \in DOMAIN cres_sum : cres_sum[i].EID = e].Payable_Hours
            ELSE 0
        left(e) == SelectSeq(plx_sum, LAMBDA r : r.EID = e)
        joined(e, l) ==
            IF l = <<>>
            THEN <<[EID |-> e, Total_Hours_PLX |-> 0, Payable_Hours |-> payable(e)]>>
            ELSE [i \in DOMAIN l |->
                    [EID |-> e, Total_Hours_PLX |-> l[i].Total_Hours,
                     Payable_Hours |-> payable(e)]]
    IN  Flatten([i \in DOMAIN keys |-> joined(keys[i], left(keys[i]))])

\* sample: the first non-empty value of a column per EID of the Crescent
\* rows, NaN for an EID without Crescent row; vals are the values of the
\* column in the rows of that EID
SampleOf(vals) == IF vals = <<>> THEN NaN ELSE FirstTruthy(vals)

\* merged.merge(sample, on="EID", how="left")
MergeSample(merged, cres) ==
    LET crows(e) == SelectSeq(cres, LAMBDA r : r.EID = e)
        lines(rs) == [i \in DOMAIN rs |-> rs[i].Line]
        badges(rs) == [i \in DOMAIN rs |-> rs[i].Badge]
    IN  [i \in DOMAIN merged |->
            [EID |-> merged[i].EID,
             Total_Hours_PLX |-> merged[i].Total_Hours_PLX,
             Payable_Hours |-> merged[i].Payable_Hours,
             Line |-> SampleOf(lines(crows(merged[i].EID))),
             Badge |-> SampleOf(badges(crows(merged[i].EID)))]]

\* merged.merge(plx_name, on="EID", how="left"): one row per Name of that
\* EID in plx_sum
MergePlxName(merged, plx_sum) ==
    LET plx_names(l) == IF l = <<>> THEN <<NaN>> ELSE [i \in DOMAIN l |-> l[i].Name]
        named(r, ns) ==
            [i \in DOMAIN ns |->
                [EID |-> r.EID,
                 Total_Hours_PLX |-> r.Total_Hours_PLX,
                 Payable_Hours |-> r.Payable_Hours,
                 Line |-> r.Line,
                 Badge |-> r.Badge,
                 Name_PLX |-> ns[i]]]
    IN  Flatten([i \in DOMAIN merged |->
                    named(merged[i],
                          plx_names(SelectSeq(plx_sum, LAMBDA q : q.EID = merged[i].EID)))])

\* one record of the loop over merged rows
DiscRecord(r, plx_total, cres_total) ==
    [EID |-> r.EID,
     Name_PLX |-> r.Name_PLX,
     \* the sample's Name column collides with plx_sum's Name and is renamed
     \* by the merge, so r.get("Name", "") is ""
     Name_CRES |-> <<>>,
     Badge |-> OrEmpty(r.Badge),
     Line |-> OrEmpty(r.Line),
     PLX_Hours |-> plx_total,
     CRES_Hours |-> cres_total,
     Diff |-> plx_total - cres_total,
     Category |-> Categorize(plx_total, cres_total),
     DayOfWeek |-> "",
     Status |-> "",
     Notes |-> ""]

\* the loop over merged rows: rows with an empty EID and rows the category
\* chain skips give no record
DiscRecords(merged) ==
    LET kept == SelectSeq(merged, LAMBDA r :
                    r.EID # <<>>
                    /\ Categorize(to_number(Num(r.Total_Hours_PLX)),
                                  to_number(Num(r.Payable_Hours))) # "")
    IN  [i \in DOMAIN kept |->
            DiscRecord(kept[i], to_number(Num(kept[i].Total_Hours_PLX)),
                       to_number(Num(kept[i].Payable_Hours)))]

\* "Add invalid EIDs from Crescent as their own rows"
InvalidRecords(cres) ==
    LET invalid_rows == SelectSeq(cres, LAMBDA r : r.EID = <<>> /\ r.Payable_Hours > 0)
    IN  [i \in DOMAIN invalid_rows |->
            [EID |-> <<>>,
             Name_PLX |-> <<>>,
             Name_CRES |-> invalid_rows[i].Name,
             Badge |-> invalid_rows[i].Badge,
             Line |-> invalid_rows[i].Line,
             PLX_Hours |-> 0,
             CRES_Hours |-> to_number(Num(invalid_rows[i].Payable_Hours)),
             Diff |-> 0 - to_number(Num(invalid_rows[i].Payable_Hours)),
             Category |-> "Invalid EID",
             DayOfWeek |-> "",
             Status |-> "",
             Notes |-> InvalidNote]]

DetectFromSummaries(plx_sum, cres_sum, cres) ==
    DiscRecords(MergePlxName(MergeSample(OuterMerge(plx_sum, cres_sum), cres), plx_sum))
    \o InvalidRecords(cres)

detect_discrepancies(plx, cres) ==
    DetectFromSummaries(summarize_plx(plx), summarize_crescent(cres), cres)

\* ------------------------------------------------------------------------
\* Editors and recomputation (streamlit_app.py, script body)
\* ------------------------------------------------------------------------

STATUS_OPTIONS == <<"", "Resolved", "Crescent Error", "Badge Correction Needed">>

\* a missing value of a Status / DayOfWeek / Notes cell
NaNStr == "nan"

\* A data editor returns the table it is given with the reviewer's edit of
\* this interaction applied.  An edit is [row, col, val] (and day for a
\* per-day column); NoEdit leaves the table as given.
NoEdit == [row |-> 0, col |-> "", day |-> "", val |-> NaNCell]

\* the PLX table as the editor holds it: editable cells carry their type
PlxCells(plx) ==
    [i \in DOMAIN plx |->
        [EID |-> Str(plx[i].EID), Name |-> plx[i].Name,
         Reg_Hours |-> Num(plx[i].Reg_Hours), OT_Hours |-> Num(plx[i].OT_Hours),
         Total_Hours |-> plx[i].Total_Hours,
         DayReg |-> plx[i].DayReg, DayOT |-> plx[i].DayOT]]

CresCells(cres) ==
    [i \in DOMAIN cres |->
        [Badge |-> cres[i].Badge, EID |-> Str(cres[i].EID),
         EID_Valid |-> cres[i].EID_Valid, Last3 |-> cres[i].Last3,
         Line |-> cres[i].Line, Payable_Hours |-> Num(cres[i].Payable_Hours),
         Name |-> cres[i].Name]]

ApplyPlxEdit(t, e) ==
    IF e.row \notin DOMAIN t THEN t
    ELSE [t EXCEPT ![e.row] =
            CASE e.col = "EID" -> [@ EXCEPT !.EID = e.val]
              [] e.col = "Reg_Hours" -> [@ EXCEPT !.Reg_Hours = e.val]
              [] e.col = "OT_Hours" -> [@ EXCEPT !.OT_Hours = e.val]
              [] e.col = "DayReg" -> [@ EXCEPT !.DayReg[e.day] = e.val]
              [] e.col = "DayOT" -> [@ EXCEPT !.DayOT[e.day] = e.val]]

ApplyCresEdit(t, e) ==
    IF e.row \notin DOMAIN t THEN t
    ELSE [t EXCEPT ![e.row] =
            CASE e.col = "EID" -> [@ EXCEPT !.EID = e.val]
              [] e.col = "Payable_Hours" -> [@ EXCEPT !.Payable_Hours = e.val]]

ApplyDiscEdit(t, e) ==
    IF e.row \notin DOMAIN t THEN t
    ELSE [t EXCEPT ![e.row] =
            CASE e.col = "Status" -> [@ EXCEPT !.Status = e.val]
              [] e.col = "DayOfWeek" -> [@ EXCEPT !.DayOfWeek = e.val]
              [] e.col = "Notes" -> [@ EXCEPT !.Notes = e.val]]

\* recompute_plx_row without the assignment of Total_Hours: the total of the
\* row as the editor returned it is kept
recompute_plx_row_stale(r) ==
    LET reg == SumSeq([i \in DOMAIN DayAbbrevs |-> to_number(r.DayReg[DayAbbrevs[i]])])
        ot == SumSeq([i \in DOMAIN DayAbbrevs |-> to_number(r.DayOT[DayAbbrevs[i]])])
    IN  [EID |-> normalize_eid(r.EID), Name |-> r.Name,
         Reg_Hours |-> reg, OT_Hours |-> ot, Total_Hours |-> r.Total_Hours,
         DayReg |-> r.DayReg, DayOT |-> r.DayOT]

\* "Recompute totals on edits": one row of edited_plx
recompute_plx_row(r) ==
    LET reg_cols == DayAbbrevs
        ot_cols == DayAbbrevs
        reg == IF reg_cols # <<>>
               THEN SumSeq([i \in DOMAIN reg_cols |-> to_number(r.DayReg[reg_cols[i]])])
               ELSE to_number(r.Reg_Hours)
        ot == IF ot_cols # <<>>
              THEN SumSeq([i \in DOMAIN ot_cols |-> to_number(r.DayOT[ot_cols[i]])])
              ELSE to_number(r.OT_Hours)
    IN  [EID |-> normalize_eid(r.EID), Name |-> r.Name,
         Reg_Hours |-> reg, OT_Hours |-> ot, Total_Hours |-> reg + ot,
         DayReg |-> r.DayReg, DayOT |-> r.DayOT]

recompute_plx(edited_plx) ==
    [i \in DOMAIN edited_plx |-> recompute_plx_row(edited_plx[i])]

recompute_cres(edited_cres) ==
    [i \in DOMAIN edited_cres |->
        [Badge |-> edited_cres[i].Badge,
         EID |-> normalize_eid(edited_cres[i].EID),
         EID_Valid |-> edited_cres[i].EID_Valid,
         Last3 |-> edited_cres[i].Last3,
         Line |-> edited_cres[i].Line,
         Payable_Hours |-> to_number(edited_cres[i].Payable_Hours),
         Name |-> edited_cres[i].Name]]

\* Series.fillna(other): only a missing value is replaced
FillNa(x, y) == IF x = NaNStr THEN y ELSE x

\* disc_df.merge(prev, on=["EID","Badge","Category"], how="left") followed
\* by the fillna of Status / DayOfWeek / Notes from the _prev columns
reattach(disc, prev) ==
    LET matches(l) == SelectSeq(prev, LAMBDA q :
                          q.EID = l.EID /\ q.Badge = l.Badge /\ q.Category = l.Category)
        fill(l, q) == [l EXCEPT !.Status = FillNa(l.Status, q.Status),
                                !.DayOfWeek = FillNa(l.DayOfWeek, q.DayOfWeek),
                                !.Notes = FillNa(l.Notes, q.Notes)]
        nomatch == [Status |-> NaNStr, DayOfWeek |-> NaNStr, Notes |-> NaNStr]
        expand(l) == IF matches(l) = <<>> THEN <<fill(l, nomatch)>>
                     ELSE [j \in DOMAIN matches(l) |-> fill(l, matches(l)[j])]
    IN  Flatten([i \in DOMAIN disc |-> expand(disc[i])])

\* totals() and the comparison of section 4
totals(plx, cres) ==
    <<SumOver(plx, LAMBDA r : r.Total_Hours), SumOver(cres, LAMBDA r : r.Payable_Hours)>>

totals_match(plx, cres) ==
    LET t == totals(plx, cres) IN Abs(t[1] - t[2]) < Eps

\* x or y for texts: the empty text and None are falsy
Or(x, y) == IF x = <<>> \/ x = None THEN y ELSE x

\* the lines of the client summary; the text returned is their join by
\* "\n", stripped, hence the empty text when there is no line
build_client_summary(disc) ==
    LET df == SelectSeq(disc, LAMBDA r : r.Status = "Crescent Error")
    IN  [i \in DOMAIN df |->
            [name |-> Or(df[i].Name_PLX, Or(df[i].Name_CRES, <<"Associate">>)),
             line |-> Strip(Or(df[i].Line, <<>>)),
             badge |-> Or(df[i].Badge, <<>>),
             correct |-> to_number(Num(df[i].PLX_Hours)),
             incorrect |-> to_number(Num(df[i].CRES_Hours))]]

\* ------------------------------------------------------------------------
\* discrepancy_checker.py
\* A table as read from a file is [columns, rows]; a cell is a tagged value
\* (text, number or NaN).  Hours are numbers in ticks.
\* ------------------------------------------------------------------------

NanText == <<"n", "a", "n">>

\* astype(str) of a cell: NaN becomes the text "nan"; the numbers of the
\* model's tables are not converted
AsText(c) == IF IsStr(c) THEN c.str ELSE NanText

\* the text after its leading non-digit characters
RECURSIVE SkipNonDigits(_)
SkipNonDigits(s) ==
    IF s # <<>> /\ Head(s) \notin Digits THEN SkipNonDigits(Tail(s)) ELSE s

\* str.extract(r"(\d+)"): the first run of digits, NaN when there is none
ExtractDigits(s) ==
    LET run == DigitRun(SkipNonDigits(s)) IN IF run = <<>> THEN NaN ELSE run

\* the digit group of the match of plx-(\d+)- that starts at position i
PlxGroupAt(s, i) ==
    IF /\ i + 4 <= Len(s)
       /\ Upper(SubSeq(s, i, i + 2)) = <<"P", "L", "X">>
       /\ s[i + 3] = "-"
    THEN LET run == DigitRun(SubSeq(s, i + 4, Len(s)))
         IN  IF /\ run # <<>>
                /\ i + 4 + Len(run) <= Len(s)
                /\ s[i + 4 + Len(run)] = "-"
             THEN run ELSE <<>>
    ELSE <<>>

\* str.extract(r"(?i)plx-(\d+)-")[0]: the digit group of the leftmost match
ExtractPlxEid(s) ==
    LET hits == {i \in DOMAIN s : PlxGroupAt(s, i) # <<>>}
    IN  IF hits = {} THEN NaN
        ELSE PlxGroupAt(s, CHOOSE i \in hits : \A j \in hits : i <= j)

\* str.extract(r"-(\w{3})$", flags=re.IGNORECASE)[0]; the flag is taken as
\* the value the expression names (the module does not import re)
ExtractLast3(s) ==
    LET n == Len(s) IN
    IF /\ n >= 4
       /\ s[n - 3] = "-"
       /\ \A i \in (n - 2)..n : s[i] \in Letters \cup Digits \cup {"_"}
    THEN SubSeq(s, n - 2, n) ELSE NaN

\* pd.to_numeric(col, errors="coerce").fillna(0.0) for one cell
ToNumericOrZero(c) ==
    IF IsNum(c) THEN c.num
    ELSE IF IsStr(c) /\ FloatParses(Strip(c.str)) THEN FloatValue(Strip(c.str))
    ELSE 0

\* the first candidate column name that is a column of df, "" if none
detect_possible_line_column(df) ==
    LET candidates == <<"Line", "line", "Department", "department", "Dept",
                        "dept", "Labor Dept", "Labor Department", "Work Area",
                        "Area", "Cost Center", "CostCenter">>
        idx == SelectFirstIdx(candidates, LAMBDA c : c \in Range(df.columns), 1)
    IN  IF idx = 0 THEN "" ELSE candidates[idx]

\* c.strip().lower() in {"payable hours", "payable_hours", ...} on the
\* header vocabulary
HeaderIsPayableAlt(c) == c \in {"Payable Hours", "payable hours", "Payable"}

\* groupby(...).agg("first"): the first value that is not NaN
FirstNotNull(s) ==
    LET idx == SelectFirstIdx(s, LAMBDA x : x # NaN, 1)
    IN  IF idx = 0 THEN NaN ELSE s[idx]

hours_col(selected_day) == selected_day \o " - Reg Hrs"

\* the column that holds the payable hours: "Payable hours", else the first
\* alternate name, "" when there is none (ValueError)
PayableCol(columns) ==
    IF "Payable hours" \in Range(columns) THEN "Payable hours"
    ELSE IF SelectSeq(columns, HeaderIsPayableAlt) # <<>>
         THEN SelectSeq(columns, HeaderIsPayableAlt)[1]
    ELSE ""

\* "Normalize PLX": EID, Name and Excel Hours of every row
NormalizeDcPlx(rows, hours) ==
    [i \in DOMAIN rows |->
        [EID |-> ExtractDigits(AsText(rows[i]["File"])),
         Name |-> AsText(rows[i]["Name"]),
         Excel_Hours |-> ToNumericOrZero(rows[i][hours])]]

\* plx.groupby("EID").agg({"Excel Hours": "sum", "Name": "first"}): the
\* rows whose key is NaN are dropped, the keys are sorted
GroupDcPlx(plx) ==
    LET pkeys == SortTexts({plx[i].EID : i \in DOMAIN plx} \ {NaN})
        g(e) == SelectSeq(plx, LAMBDA r : r.EID = e)
    IN  [k \in DOMAIN pkeys |->
            [EID |-> pkeys[k],
             Excel_Hours |-> SumOver(g(pkeys[k]), LAMBDA r : r.Excel_Hours),
             Name |-> g(pkeys[k])[1].Name]]

\* one row of cres from its badge text
DcCresRecord(b, hours, line) ==
    [Badge |-> b,
     Payable_hours |-> hours,
     Line |-> line,
     EID |-> ExtractPlxEid(b),
     Last3 |-> ExtractLast3(b)]

\* "Normalize Crescent"
NormalizeDcCres(rows, pay_col, line_col) ==
    [i \in DOMAIN rows |->
        DcCresRecord(AsText(rows[i]["Badge"]),
                     ToNumericOrZero(rows[i][pay_col]),
                     IF line_col # "" /\ IsStr(rows[i][line_col])
                     THEN rows[i][line_col].str ELSE NaN)]

\* cres_numeric.groupby("EID").agg(sum / first / first)
GroupDcCres(cres_numeric) ==
    LET ckeys == SortTexts({cres_numeric[i].EID : i \in DOMAIN cres_numeric})
        g(e) == SelectSeq(cres_numeric, LAMBDA r : r.EID = e)
        last3s(rs) == [j \in DOMAIN rs |-> rs[j].Last3]
        lines(rs) == [j \in DOMAIN rs |-> rs[j].Line]
    IN  [k \in DOMAIN ckeys |->
            [EID |-> ckeys[k],
             Payable_hours |-> SumOver(g(ckeys[k]), LAMBDA r : r.Payable_hours),
             Last3 |-> FirstNotNull(last3s(g(ckeys[k]))),
             Line |-> FirstNotNull(lines(g(ckeys[k])))]]

\* one row of comp from the rows l, r of the two grouped tables with its key
CompRow(e, l, r) ==
    [EID |-> e,
     Excel_Hours |-> IF l = <<>> THEN 0 ELSE l[1].Excel_Hours,
     Name |-> IF l = <<>> THEN <<>> ELSE l[1].Name,
     Payable_hours |-> IF r = <<>> THEN 0 ELSE r[1].Payable_hours,
     Last3 |-> IF r = <<>> THEN NaN ELSE r[1].Last3,
     Line |-> IF r = <<>> THEN NaN ELSE r[1].Line,
     Discrepancy |-> (IF l = <<>> THEN 0 ELSE l[1].Excel_Hours)
                     - (IF r = <<>> THEN 0 ELSE r[1].Payable_hours)]

\* pd.merge(plx_grouped, cres_grouped, on="EID", how="outer") with the
\* fillna of the hours and the name, and the Discrepancy column
MergeGrouped(plx_grouped, cres_grouped) ==
    LET keys == SortTexts({plx_grouped[k].EID : k \in DOMAIN plx_grouped}
                          \cup {cres_grouped[k].EID : k \in DOMAIN cres_grouped})
    IN  [k \in DOMAIN keys |->
            CompRow(keys[k],
                    SelectSeq(plx_grouped, LAMBDA r : r.EID = keys[k]),
                    SelectSeq(cres_grouped, LAMBDA q : q.EID = keys[k]))]

\* "Categories" and the returned tuple
ComparisonResult(comp, non_numeric_eid, line_col) ==
    [ok |-> TRUE,
     comp |-> comp,
     plx_only |-> SelectSeq(comp, LAMBDA r : r.Excel_Hours > 0 /\ r.Payable_hours = 0),
     cres_only |-> SelectSeq(comp, LAMBDA r : r.Excel_Hours = 0 /\ r.Payable_hours > 0),
     mismatched |-> SelectSeq(comp, LAMBDA r :
                        /\ r.Excel_Hours > 0 /\ r.Payable_hours > 0
                        /\ r.Discrepancy # 0),
     non_numeric_eid |-> non_numeric_eid,
     line_col |-> line_col]

\* the comparison of the normalized tables: the Crescent rows without
\* numeric EID are set apart, the others grouped and merged
CompareNormalized(plx, cres, line_col) ==
    ComparisonResult(
        MergeGrouped(GroupDcPlx(plx),
                     GroupDcCres(SelectSeq(cres, LAMBDA r : r.EID # NaN))),
        SelectSeq(cres, LAMBDA r : r.EID = NaN),
        line_col)

\* result [ok |-> FALSE] stands for the ValueError of a missing column
build_comparison(plx_df0, cres_df0, selected_day) ==
    IF \/ ~({"File", "Name", hours_col(selected_day)} \subseteq Range(plx_df0.columns))
       \/ "Badge" \notin Range(cres_df0.columns)
       \/ PayableCol(cres_df0.columns) = ""
    THEN [ok |-> FALSE]
    ELSE CompareNormalized(
             NormalizeDcPlx(plx_df0.rows, hours_col(selected_day)),
             NormalizeDcCres(cres_df0.rows, PayableCol(cres_df0.columns),
                             detect_possible_line_column(cres_df0)),
             detect_possible_line_column(cres_df0))

\* add_error_scaffold on the rows of a bucket of comp; the row is laid out
\* with the columns of the concatenated review table (Badge is NaN here)
add_error_scaffold(df, source_label) ==
    [i \in DOMAIN df |->
        [ErrorID |-> i, Source |-> source_label,
         EID |-> df[i].EID, Excel_Hours |-> Num(df[i].Excel_Hours),
         Name |-> df[i].Name, Payable_hours |-> Num(df[i].Payable_hours),
         Last3 |-> df[i].Last3, Line |-> df[i].Line,
         Discrepancy |-> Num(df[i].Discrepancy), Badge |-> NaN,
         Action |-> "Unreviewed", MatchWith |-> "", CorrectHours |-> NaNCell]]

\* the compact table of the Crescent rows without numeric EID, in the
\* columns of the concatenated review table
non_numeric_view(non_numeric_eid) ==
    [i \in DOMAIN non_numeric_eid |->
        [ErrorID |-> i, Source |-> "Crescent row has non-numeric/missing EID",
         EID |-> NaN, Excel_Hours |-> NaNCell,
         Name |-> NaN, Payable_hours |-> Num(non_numeric_eid[i].Payable_hours),
         Last3 |-> non_numeric_eid[i].Last3, Line |-> non_numeric_eid[i].Line,
         Discrepancy |-> NaNCell, Badge |-> non_numeric_eid[i].Badge,
         Action |-> "Unreviewed", MatchWith |-> "", CorrectHours |-> NaNCell]]

\* pd.concat of the four review tables
build_review_df(c) ==
    add_error_scaffold(c.plx_only, "PLX discrepancy (hours only on PLX)")
    \o add_error_scaffold(c.cres_only, "Crescent discrepancy (hours only on Crescent)")
    \o add_error_scaffold(c.mismatched, "Mismatch (both have hours, values differ)")
    \o non_numeric_view(c.non_numeric_eid)

\* Series.sum(): NaN cells are skipped
SumCells(t, f(_)) ==
    SumSeq([i \in DOMAIN t |-> IF IsNum(f(t[i])) THEN f(t[i]).num ELSE 0])

\* work = df.copy() with the two effective columns as copied from the hours
\* columns
Effective(df) ==
    [i \in DOMAIN df |->
        [row |-> df[i],
         Excel_Effective |-> df[i].Excel_Hours,
         Crescent_Effective |-> df[i].Payable_hours]]

\* work.loc[mask, col] = work.loc[mask, "CorrectHours"] for the mask
\* (Action == action) & CorrectHours.notna()
Override(work, action, col) ==
    [i \in DOMAIN work |->
        IF work[i].row.Action = action /\ IsNum(work[i].row.CorrectHours)
        THEN [work[i] EXCEPT ![col] = work[i].row.CorrectHours]
        ELSE work[i]]

\* (corrected_plx_total, corrected_cres_total, df_with_effective_values),
\* and df as the call leaves it
CorrectionResult(work, df) ==
    [plx_total |-> SumCells(work, LAMBDA w : w.Excel_Effective),
     cres_total |-> SumCells(work, LAMBDA w : w.Crescent_Effective),
     work |-> work,
     df |-> df]

\* apply_corrections with the two masks exchanged
apply_corrections_swapped(df) ==
    CorrectionResult(
        Override(Override(Effective(df), "PLX Error", "Crescent_Effective"),
                 "Crescent Error", "Excel_Effective"),
        df)

\* df with each correction written into the hours column it overrides
WriteCorrections(df) ==
    [i \in DOMAIN df |->
        IF df[i].Action = "Crescent Error" /\ IsNum(df[i].CorrectHours)
        THEN [df[i] EXCEPT !.Payable_hours = df[i].CorrectHours]
        ELSE IF df[i].Action = "PLX Error" /\ IsNum(df[i].CorrectHours)
        THEN [df[i] EXCEPT !.Excel_Hours = df[i].CorrectHours]
        ELSE df[i]]

\* apply_corrections working on df itself instead of a copy
apply_corrections_inplace(df) ==
    CorrectionResult(Effective(WriteCorrections(df)), WriteCorrections(df))

\* the function works on a copy: df is left as passed
apply_corrections(df) ==
    CorrectionResult(
        Override(Override(Effective(df), "Crescent Error", "Crescent_Effective"),
                 "PLX Error", "Excel_Effective"),
        df)

\* "MATCH" if abs(corr_plx_total - corr_cres_total) < 1e-6 else "MISMATCH"
match_status(corr_plx_total, corr_cres_total) ==
    IF Abs(corr_plx_total - corr_cres_total) < Eps THEN "MATCH" ELSE "MISMATCH"

NoCorrections == <<[sentinel |-> "(No corrections entered.)"]>>

\* the numbered entries of the e-mail text (joined by blank lines), or the
\* sentinel text when there is none; df is the table of effective values
build_email_lines(df, line_col) ==
    LET q == SelectSeq(df, LAMBDA w :
                 /\ w.row.Action \in {"Crescent Error", "PLX Error"}
                 /\ IsNum(w.row.CorrectHours))
        entry(i) ==
            LET r == q[i].row IN
            [idx |-> i,
             name |-> IF r.Name = <<>> THEN <<"(Name N/A)">> ELSE r.Name,
             line_val |-> IF line_col # "" /\ r.Line # NaN THEN r.Line ELSE <<"N/A">>,
             badge |-> IF r.Badge # <<>> THEN r.Badge
                       ELSE IF r.Last3 # <<>> THEN r.Last3 ELSE <<"N/A">>,
             correct |-> r.CorrectHours.num,
             incorrect |-> IF r.Action = "Crescent Error" THEN r.Payable_hours
                           ELSE r.Excel_Hours]
    IN  IF q = <<>> THEN NoCorrections ELSE [i \in DOMAIN q |-> entry(i)]

\* ------------------------------------------------------------------------
\* Bounded inputs
\* ------------------------------------------------------------------------

MaxPlxRows == 2

MaxCresRows == 2

MaxDiscRows == 6

\* the runs of 1 to n consecutive rows of the sequence m
Windows(m, n) ==
    {SubSeq(m, p[1], p[1] + p[2] - 1) :
        p \in {q \in (1..Len(m)) \X (1..n) : q[1] + q[2] - 1 <= Len(m)}}

NoFile == [present |-> FALSE, columns |-> <<>>, rows |-> <<>>]

PlxLayout == <<"File", "Name", "Mon Reg", "Mon OT", "Tue Reg", "OT">>

PlxRow(file, name, monreg, monot, tuereg, ot) ==
    [c \in Range(PlxLayout) |->
        CASE c = "File" -> file [] c = "Name" -> name [] c = "Mon Reg" -> monreg
          [] c = "Mon OT" -> monot [] c = "Tue Reg" -> tuereg [] c = "OT" -> ot]

\* raw PLX rows: two names for identifier 1, a negative and a non-day
\* overtime cell for identifier 2, one whole hour without identifier
PlxRawRows ==
    << PlxRow(<<"1">>, <<"A">>, <<"4">>, None, None, None),
       PlxRow(<<"1">>, <<"B">>, <<" ", "4">>, <<"x">>, None, None),
       PlxRow(<<"E", "-", "2">>, <<"A">>, <<"-", "5">>, <<"1">>, None, <<"1">>),
       PlxRow(None, <<"C">>, None, None,
              <<"2", "0", "0", "0", "0", "0", "0">>, None) >>

PlxFiles ==
    {[present |-> TRUE, columns |-> PlxLayout, rows |-> rs] :
        rs \in Windows(PlxRawRows, MaxPlxRows)}

CresLayout == <<"Badge", "Payable Hours", "Line", "Name">>

CresRow(badge, hours, line, name) ==
    [c \in Range(CresLayout) |->
        CASE c = "Badge" -> badge [] c = "Payable Hours" -> hours
          [] c = "Line" -> line [] c = "Name" -> name]

\* raw Crescent rows: identifier 1, the same badge without digits twice,
\* a malformed badge with digits
CresRawRows ==
    << CresRow(<<" ", "p", "l", "x", "-", "1", "-", "a", "b", "c">>, <<"8">>, <<"L">>, <<"A">>),
       CresRow(<<"B", "A", "D">>, <<"5">>, None, <<"Q">>),
       CresRow(<<"B", "A", "D">>, <<"5">>, None, <<"Q">>),
       CresRow(<<"X", "Y", "Z", "-", "9", "9", "8", "-", "A", "B">>, <<"5">>, <<"M">>, <<"Z">>) >>

\* a Crescent file without a badge column
CresFileNoBadge ==
    [present |-> TRUE,
     columns |-> <<"Hours", "Line", "Name">>,
     rows |-> <<[c \in {"Hours", "Line", "Name"} |->
                   CASE c = "Hours" -> <<"5">> [] c = "Line" -> <<"L">>
                     [] c = "Name" -> <<"A">>]>>]

CresFiles ==
    {[present |-> TRUE, columns |-> CresLayout, rows |-> rs] :
        rs \in Windows(CresRawRows, MaxCresRows)}
    \cup {CresFileNoBadge}

\* the normalized tables of the input files
PlxNormalized == [f \in PlxFiles |-> load_plx(f)]

CresNormalized == [f \in CresFiles |-> load_crescent(f)]

\* reviewer edits of one cell of the PLX editor
PlxEdits ==
    { [col |-> "EID", day |-> "", val |-> Str(<<"E", "7">>)],
      [col |-> "DayReg", day |-> "Mon", val |-> Num(8)] }

\* the identifier typed as "No 1" is that of the first raw row
CresEdits ==
    { [col |-> "EID", day |-> "", val |-> Str(<<"N", "o", " ", "1">>)],
      [col |-> "Payable_Hours", day |-> "", val |-> Num(2)],
      [col |-> "Payable_Hours", day |-> "", val |-> Num(0)] }

DiscEdits ==
    { [col |-> "Status", day |-> "", val |-> STATUS_OPTIONS[3]],
      [col |-> "Notes", day |-> "", val |-> "checked"] }

RowEdit(i, e) == [row |-> i, col |-> e.col, day |-> e.day, val |-> e.val]

\* --- discrepancy_checker inputs ---

MaxDcRows == 1

\* the most cells of the review table a reviewer changes
MaxEditedCells == 2

DcDays == {"Monday", "Tuesday"}

DcPlxLayout == <<"File", "Name", "Monday - Reg Hrs", "Tuesday - Reg Hrs">>

DcPlxRow(file, name, mon, tue) ==
    [c \in Range(DcPlxLayout) |->
        CASE c = "File" -> file [] c = "Name" -> name
          [] c = "Monday - Reg Hrs" -> mon [] c = "Tuesday - Reg Hrs" -> tue]

\* raw PLX rows: identifier 1, identifier 2 with an unparsable Tuesday cell
DcPlxRawRows ==
    << DcPlxRow(Str(<<"1">>), Str(<<"A">>), Num(5), Num(3)),
       DcPlxRow(Str(<<"E", "2">>), Str(<<"B">>), Num(8), Str(<<"x">>)) >>

DcPlxFiles ==
    {[present |-> TRUE, columns |-> DcPlxLayout, rows |-> rs] :
        rs \in Windows(DcPlxRawRows, MaxDcRows)}

DcCresLayout == <<"Badge", "Payable hours", "Line">>

DcCresRow(badge, hours, line) ==
    [c \in Range(DcCresLayout) |->
        CASE c = "Badge" -> badge [] c = "Payable hours" -> hours
          [] c = "Line" -> line]

\* raw Crescent rows: identifier 1, identifier 2 without line, a badge
\* without identifier
DcCresRawRows ==
    << DcCresRow(Str(<<"P", "L", "X", "-", "1", "-", "A", "B", "C">>), Num(9), Str(<<"L">>)),
       DcCresRow(Str(<<"p", "l", "x", "-", "2", "-", "x", "y", "z">>), Num(8), NaNCell),
       DcCresRow(Str(<<"B", "A", "D">>), Num(5), Str(<<"M">>)) >>

DcCresFiles ==
    {[present |-> TRUE, columns |-> DcCresLayout, rows |-> rs] :
        rs \in Windows(DcCresRawRows, MaxDcRows)}

\* build_comparison of every pair of input files and every day
DcComparison ==
    [x \in DcPlxFiles \X DcCresFiles \X DcDays |->
        build_comparison(x[1], x[2], x[3])]

\* reviewer edits of one cell of the review table; 3 is the Tuesday PLX
\* value of identifier 1 and lies at the tolerance from its Monday value
ReviewEdits ==
    { [col |-> "Action", val |-> "Crescent Error"],
      [col |-> "Action", val |-> "PLX Error"],
      [col |-> "CorrectHours", val |-> Num(3)] }

NoReviewEdit == [row |-> 0, col |-> "", val |-> ""]

\* the number of reviewer cells of the table that are not as scaffolded
EditedCells(t) ==
    Cardinality({i \in DOMAIN t : t[i].Action # "Unreviewed"})
    + Cardinality({i \in DOMAIN t : IsNum(t[i].CorrectHours)})

\* the review editor returns the table it is given with the edit applied
ApplyReviewEdit(t, e) ==
    IF e.row \notin DOMAIN t THEN t
    ELSE [t EXCEPT ![e.row] =
            CASE e.col = "Action" -> [@ EXCEPT !.Action = e.val]
              [] e.col = "CorrectHours" -> [@ EXCEPT !.CorrectHours = e.val]]

\* ------------------------------------------------------------------------
\* The streamlit_app session
\* ------------------------------------------------------------------------

VARIABLES
    plx_file, cres_file,       \* the two file uploaders
    plx_df, cres_df, disc_df,  \* st.session_state
    detected,                  \* the result of detect_discrepancies of this run
    disc_computed,             \* disc_df as handed to the discrepancy editor
    run_stage,                 \* how far the last script run got
    totals_msg,                \* section 4: "", "match", "mismatch"
    summary_text               \* section 5: [shown, lines]

\* the discrepancy_checker session
VARIABLES
    prologistix_file, crescent_file,  \* the two file uploaders
    selected_day,                     \* the day selectbox
    review_set,                       \* "review_df" in st.session_state
    review_df,                        \* st.session_state.review_df
    dc_stage,                         \* how far the last script run got
    validation                        \* what Validate & Summarize displayed

app_vars == <<plx_file, cres_file, plx_df, cres_df, disc_df, detected,
              disc_computed, run_stage, totals_msg, summary_text>>

dc_vars == <<prologistix_file, crescent_file, selected_day, review_set,
             review_df, dc_stage, validation>>

vars == <<app_vars, dc_vars>>

NoValidation == [shown |-> FALSE]

NoSummary == [shown |-> FALSE, lines |-> <<>>]

Init ==
    /\ plx_file = NoFile
    /\ cres_file = NoFile
    /\ plx_df = <<>>
    /\ cres_df = <<>>
    /\ disc_df = <<>>
    /\ detected = <<>>
    /\ disc_computed = <<>>
    /\ run_stage = "init"
    /\ totals_msg = ""
    /\ summary_text = NoSummary
    /\ prologistix_file = NoFile
    /\ crescent_file = NoFile
    /\ selected_day = "Monday"
    /\ review_set = FALSE
    /\ review_df = <<>>
    /\ dc_stage = "init"
    /\ validation = NoValidation

\* A run that ended in an exception after plx was stored: stage names the
\* exception, disc is the discrepancy table the session is left with
RunFailed(pf, cf, plx, cres, d0, disc, stage) ==
    /\ UNCHANGED dc_vars
    /\ plx_file' = pf
    /\ cres_file' = cf
    /\ plx_df' = plx
    /\ cres_df' = cres
    /\ disc_df' = disc
    /\ detected' = d0
    /\ disc_computed' = <<>>
    /\ run_stage' = stage
    /\ totals_msg' = ""
    /\ summary_text' = NoSummary

\* sections 3 to 5 from the table d1 handed to the discrepancy editor and
\* the table disc2 it returns
RunEdited(pf, cf, plx2, cres2, d0, d1, disc2) ==
    /\ Len(disc2) <= MaxDiscRows
    /\ UNCHANGED dc_vars
    /\ plx_file' = pf
    /\ cres_file' = cf
    /\ plx_df' = plx2
    /\ cres_df' = cres2
    /\ disc_df' = disc2
    /\ detected' = d0
    /\ disc_computed' = d1
    /\ run_stage' = "done"
    /\ totals_msg' = IF totals_match(plx2, cres2) THEN "match" ELSE "mismatch"
    /\ summary_text' = IF disc2 # <<>>
                       THEN [shown |-> TRUE, lines |-> build_client_summary(disc2)]
                       ELSE NoSummary

\* section 3 from the result d0 of detect_discrepancies and the table d1
\* after the merge with the previous table
RunReattached(pf, cf, plx2, cres2, d0, d1, de) ==
    IF d1 = <<>>
    THEN \* KeyError: disc_editor["Category"] of a frame without columns,
         \* after the frame was stored
         RunFailed(pf, cf, plx2, cres2, d0, <<>>, "metric_error")
    ELSE RunEdited(pf, cf, plx2, cres2, d0, d1, ApplyDiscEdit(d1, de))

RunDetected(pf, cf, plx2, cres2, d0, de) ==
    IF disc_df # <<>> /\ d0 = <<>>
    THEN \* KeyError: merge of a frame without columns
         RunFailed(pf, cf, plx2, cres2, d0, disc_df, "merge_error")
    ELSE RunReattached(pf, cf, plx2, cres2, d0,
                       IF disc_df # <<>> THEN reattach(d0, disc_df) ELSE d0, de)

\* sections 3 to 5 when a table is empty: no discrepancy table is computed,
\* the stored one stays and is summarised
RunWithoutBoth(pf, cf, plx2, cres2) ==
    /\ UNCHANGED <<dc_vars, disc_df>>
    /\ plx_file' = pf
    /\ cres_file' = cf
    /\ plx_df' = plx2
    /\ cres_df' = cres2
    /\ detected' = <<>>
    /\ disc_computed' = <<>>
    /\ run_stage' = "no_disc"
    /\ totals_msg' = ""
    /\ summary_text' = IF disc_df # <<>>
                       THEN [shown |-> TRUE, lines |-> build_client_summary(disc_df)]
                       ELSE NoSummary

\* the run from the recomputed tables on
RunRecomputed(pf, cf, plx2, cres2, de) ==
    IF plx2 # <<>> /\ cres2 # <<>>
    THEN RunDetected(pf, cf, plx2, cres2, detect_discrepancies(plx2, cres2), de)
    ELSE RunWithoutBoth(pf, cf, plx2, cres2)

\* the run from the loaded tables on; lc is the result of load_crescent or
\* the stored table
RunLoaded(pf, cf, plx1, lc, pe, ce, de) ==
    IF ~lc.ok
    THEN \* KeyError in load_crescent: there is no badge column
         RunFailed(pf, cf, plx1, cres_df, <<>>, disc_df, "load_error")
    ELSE RunRecomputed(pf, cf,
                       IF plx1 # <<>>
                       THEN recompute_plx(ApplyPlxEdit(PlxCells(plx1), pe))
                       ELSE plx1,
                       IF lc.df # <<>>
                       THEN recompute_cres(ApplyCresEdit(CresCells(lc.df), ce))
                       ELSE lc.df,
                       de)

\* One run of the script, top to bottom: pf, cf are the uploaded files and
\* pe, ce, de the reviewer's edit in each editor.  An exception ends the
\* run; what was stored before it stays.
Run(pf, cf, pe, ce, de) ==
    RunLoaded(pf, cf,
              IF pf.present THEN PlxNormalized[pf] ELSE plx_df,
              IF cf.present THEN CresNormalized[cf] ELSE [ok |-> TRUE, df |-> cres_df],
              pe, ce, de)

UploadPlx(f) ==
    /\ f # plx_file
    /\ Run(f, cres_file, NoEdit, NoEdit, NoEdit)

UploadCres(f) ==
    /\ f # cres_file
    /\ Run(plx_file, f, NoEdit, NoEdit, NoEdit)

\* the reviewer changes one cell of row i in the PLX editor
EditPlx(i, e) ==
    /\ run_stage \in {"no_disc", "done", "merge_error", "metric_error"}
    /\ i \in DOMAIN plx_df
    /\ Run(plx_file, cres_file, RowEdit(i, e), NoEdit, NoEdit)

EditCres(i, e) ==
    /\ run_stage \in {"no_disc", "done", "merge_error", "metric_error"}
    /\ i \in DOMAIN cres_df
    /\ Run(plx_file, cres_file, NoEdit, RowEdit(i, e), NoEdit)

\* the reviewer changes Status / DayOfWeek / Notes of row i of the
\* discrepancy editor
EditDisc(i, e) ==
    /\ run_stage = "done"
    /\ i \in DOMAIN disc_df
    /\ Run(plx_file, cres_file, NoEdit, NoEdit, RowEdit(i, e))

\* any other interaction (a download button): the script runs again
Rerun == Run(plx_file, cres_file, NoEdit, NoEdit, NoEdit)

Next ==
    \/ \E f \in PlxFiles : UploadPlx(f)
    \/ \E f \in CresFiles : UploadCres(f)
    \/ \E i \in 1..MaxPlxRows, e \in PlxEdits : EditPlx(i, e)
    \/ \E i \in 1..MaxCresRows, e \in CresEdits : EditCres(i, e)
    \/ \E i \in 1..MaxDiscRows, e \in DiscEdits : EditDisc(i, e)
    \/ Rerun

Spec == Init /\ [][Next]_vars

\* ------------------------------------------------------------------------
\* The discrepancy_checker session
\* ------------------------------------------------------------------------

\* the click of "Validate & Summarize": res is the result of
\* apply_corrections on the edited review table
RunValidate(pf, cf, day, c, res) ==
    /\ UNCHANGED app_vars
    /\ prologistix_file' = pf
    /\ crescent_file' = cf
    /\ selected_day' = day
    /\ review_set' = TRUE
    /\ review_df' = res.df
    /\ dc_stage' = "validated"
    /\ validation' =
          [shown |-> TRUE,
           corr_plx_total |-> res.plx_total,
           corr_cres_total |-> res.cres_total,
           match_status |-> match_status(res.plx_total, res.cres_total),
           effective |-> res.work,
           email_text |-> build_email_lines(res.work, c.line_col)]

\* the run from the table the review editor returned on
RunReviewed(pf, cf, day, c, edited, click) ==
    IF click
    THEN RunValidate(pf, cf, day, c, apply_corrections(edited))
    ELSE /\ UNCHANGED app_vars
         /\ prologistix_file' = pf
         /\ crescent_file' = cf
         /\ selected_day' = day
         /\ review_set' = TRUE
         /\ review_df' = edited
         /\ dc_stage' = "review"
         /\ validation' = NoValidation

\* the run from the concatenated review table fresh on: the stored table
\* is replaced when there is none or its length differs
RunScaffolded(pf, cf, day, c, fresh, e, click) ==
    RunReviewed(pf, cf, day, c,
                ApplyReviewEdit(IF ~review_set \/ Len(review_df) # Len(fresh)
                                THEN fresh ELSE review_df, e),
                click)

\* the run from the result c of build_comparison on
RunCompared(pf, cf, day, c, e, click) ==
    IF ~c.ok
    THEN \* ValueError of build_comparison, reported by the except clause
         /\ UNCHANGED <<app_vars, review_set, review_df>>
         /\ prologistix_file' = pf
         /\ crescent_file' = cf
         /\ selected_day' = day
         /\ dc_stage' = "error"
         /\ validation' = NoValidation
    ELSE RunScaffolded(pf, cf, day, c, build_review_df(c), e, click)

\* One run of the script: pf, cf are the uploaded files, day the selected
\* day, e the reviewer's edit in the review editor and click whether
\* "Validate & Summarize" was pressed.  An exception inside the try block is
\* reported and ends the run.
RunDC(pf, cf, day, e, click) ==
    IF ~(pf.present /\ cf.present)
    THEN /\ UNCHANGED <<app_vars, selected_day, review_set, review_df>>
         /\ prologistix_file' = pf
         /\ crescent_file' = cf
         /\ dc_stage' = "info"
         /\ validation' = NoValidation
    ELSE RunCompared(pf, cf, day, DcComparison[<<pf, cf, day>>], e, click)

UploadPrologistix(f) ==
    /\ f # prologistix_file
    /\ RunDC(f, crescent_file, selected_day, NoReviewEdit, FALSE)

UploadCrescent(f) ==
    /\ f # crescent_file
    /\ RunDC(prologistix_file, f, selected_day, NoReviewEdit, FALSE)

SelectDay(d) ==
    /\ dc_stage \in {"review", "validated", "error"}
    /\ d # selected_day
    /\ RunDC(prologistix_file, crescent_file, d, NoReviewEdit, FALSE)

\* the reviewer changes Action or CorrectHours of row i of the review table
EditReview(i, e) ==
    /\ dc_stage \in {"review", "validated"}
    /\ i \in DOMAIN review_df
    /\ EditedCells(ApplyReviewEdit(review_df, [row |-> i, col |-> e.col, val |-> e.val]))
           <= MaxEditedCells
    /\ RunDC(prologistix_file, crescent_file, selected_day,
             [row |-> i, col |-> e.col, val |-> e.val], FALSE)

\* the reviewer presses "Validate & Summarize"
Validate ==
    /\ dc_stage \in {"review", "validated"}
    /\ RunDC(prologistix_file, crescent_file, selected_day, NoReviewEdit, TRUE)

NextDC ==
    \/ \E f \in DcPlxFiles : UploadPrologistix(f)
    \/ \E f \in DcCresFiles : UploadCrescent(f)
    \/ \E d \in DcDays : SelectDay(d)
    \/ \E i \in 1..(2 * MaxDcRows), e \in ReviewEdits : EditReview(i, e)
    \/ Validate

SpecDC == Init /\ [][NextDC]_vars

\* ------------------------------------------------------------------------
\* Properties of the discrepancy_checker session
\* ------------------------------------------------------------------------

\* the comparison of the files and day of the session
SessionComparison == DcComparison[<<prologistix_file, crescent_file, selected_day>>]

\* C5: for every row of the review table handed to apply_corrections, the
\* effective PLX value is CorrectHours when Action is "PLX Error" and
\* CorrectHours is set, the PLX hours otherwise; the effective Crescent value
\* is CorrectHours when Action is "Crescent Error" and CorrectHours is set,
\* the Crescent hours otherwise.
C5_OverlayEffectiveValues ==
    validation.shown =>
        /\ Len(validation.effective) = Len(review_df)
        /\ \A i \in DOMAIN review_df :
               /\ validation.effective[i].Excel_Effective =
                      IF /\ review_df[i].Action = "PLX Error"
                         /\ IsNum(review_df[i].CorrectHours)
                      THEN review_df[i].CorrectHours
                      ELSE review_df[i].Excel_Hours
               /\ validation.effective[i].Crescent_Effective =
                      IF /\ review_df[i].Action = "Crescent Error"
                         /\ IsNum(review_df[i].CorrectHours)
                      THEN review_df[i].CorrectHours
                      ELSE review_df[i].Payable_hours

\* a validated table with a Crescent correction that differs from the
\* Crescent hours of its row, and an unreviewed row with both original values
C5_Witness ==
    /\ validation.shown
    /\ \E i \in DOMAIN review_df :
           /\ review_df[i].Action = "Crescent Error"
           /\ IsNum(review_df[i].CorrectHours)
           /\ review_df[i].CorrectHours # review_df[i].Payable_hours
           /\ validation.effective[i].Crescent_Effective = review_df[i].CorrectHours
           /\ validation.effective[i].Excel_Effective = review_df[i].Excel_Hours
    /\ \E i \in DOMAIN review_df :
           /\ review_df[i].Action = "Unreviewed"
           /\ validation.effective[i].Excel_Effective = review_df[i].Excel_Hours
           /\ validation.effective[i].Crescent_Effective = review_df[i].Payable_hours

\* the fields of the review table that apply_corrections reads
OverlayInputs(t) ==
    [i \in DOMAIN t |->
        [Excel_Hours |-> t[i].Excel_Hours, Payable_hours |-> t[i].Payable_hours,
         Action |-> t[i].Action, CorrectHours |-> t[i].CorrectHours]]

\* C6: a press of "Validate & Summarize" leaves the hours, Action and
\* CorrectHours of the review table as they were, and a press that follows
\* one on the unchanged table displays the same corrected totals and
\* effective values.
C6_OverlayIdempotent ==
    [][ dc_stage' = "validated" =>
            /\ OverlayInputs(review_df') = OverlayInputs(review_df)
            /\ dc_stage = "validated" =>
                   /\ validation'.corr_plx_total = validation.corr_plx_total
                   /\ validation'.corr_cres_total = validation.corr_cres_total
                   /\ validation'.effective = validation.effective ]_vars

\* a validated table that holds a PLX correction whose row still carries its
\* own PLX hours
C6_Witness ==
    /\ dc_stage = "validated"
    /\ \E i \in DOMAIN review_df :
           /\ review_df[i].Action = "PLX Error"
           /\ IsNum(review_df[i].CorrectHours)
           /\ review_df[i].Excel_Hours # review_df[i].CorrectHours
           /\ validation.effective[i].Excel_Effective = review_df[i].CorrectHours
           /\ validation.corr_plx_total # SumCells(review_df, LAMBDA r : r.Excel_Hours)

\* the rows of comp that are in no discrepancy bucket
MatchedRows(c) ==
    SelectSeq(c.comp, LAMBDA r :
        ~(r.Excel_Hours > 0 /\ r.Payable_hours = 0)
        /\ ~(r.Excel_Hours = 0 /\ r.Payable_hours > 0)
        /\ ~(r.Excel_Hours > 0 /\ r.Payable_hours > 0 /\ r.Discrepancy # 0))

\* C7: the corrected total of each source is the sum of its effective hours
\* over the discrepancy rows plus the hours of the matched employees.
C7_TotalsIncludeMatched ==
    validation.shown =>
        /\ validation.corr_plx_total =
               SumCells(validation.effective, LAMBDA w : w.Excel_Effective)
               + SumOver(MatchedRows(SessionComparison), LAMBDA r : r.Excel_Hours)
        /\ validation.corr_cres_total =
               SumCells(validation.effective, LAMBDA w : w.Crescent_Effective)
               + SumOver(MatchedRows(SessionComparison), LAMBDA r : r.Payable_hours)

\* C8: the status after corrections is MATCH exactly when the corrected
\* totals differ by at most epsilon.
C8_MatchIffWithinEps ==
    validation.shown =>
        (validation.match_status = "MATCH"
            <=> Abs(validation.corr_plx_total - validation.corr_cres_total) <= Eps)

\* ------------------------------------------------------------------------
\* Properties of the streamlit_app session
\* ------------------------------------------------------------------------

\* the last run reached detect_discrepancies
Classified == run_stage \in {"done", "merge_error", "metric_error"}

\* the non-empty identifiers of the two per-source aggregates
AggregateIds ==
    ({plx_df[i].EID : i \in DOMAIN plx_df} \cup {cres_df[i].EID : i \in DOMAIN cres_df})
    \ {<<>>}

PlxTotalOf(e) ==
    SumOver(SelectSeq(plx_df, LAMBDA r : r.EID = e), LAMBDA r : r.Total_Hours)

CresTotalOf(e) ==
    SumOver(SelectSeq(cres_df, LAMBDA r : r.EID = e), LAMBDA r : r.Payable_Hours)

RecordsOf(e) == SelectSeq(detected, LAMBDA r : r.EID = e)

\* C1: every non-empty identifier of either aggregate appears in at most one
\* discrepancy record, and in none only when both sides have hours > 0 and
\* |p - s| <= epsilon.
C1_ExhaustiveExclusive ==
    Classified =>
        \A e \in AggregateIds :
            LET p == PlxTotalOf(e)
                s == CresTotalOf(e)
                n == Len(RecordsOf(e))
            IN  /\ n <= 1
                /\ n = 0 => (p > 0 /\ s > 0 /\ Abs(p - s) <= Eps)

\* C2: the category of every emitted record agrees with its hours
\* (PLX-only iff p > 0 and s = 0, Crescent-only iff p = 0 and s > 0,
\* Mismatched Hours iff p > 0, s > 0 and |p - s| > epsilon), and an
\* identifier with both sides non-zero and |p - s| <= epsilon has no record.
C2_CategoryAgreesWithHours ==
    Classified =>
        /\ \A i \in DOMAIN detected :
               LET r == detected[i]
                   p == r.PLX_Hours
                   s == r.CRES_Hours
               IN  r.Category # "Invalid EID" =>
                       /\ r.Category = "PLX-only" <=> (p > 0 /\ s = 0)
                       /\ r.Category = "Crescent-only" <=> (p = 0 /\ s > 0)
                       /\ r.Category = "Mismatched Hours" <=>
                              (p > 0 /\ s > 0 /\ Abs(p - s) > Eps)
        /\ \A e \in AggregateIds :
               LET p == PlxTotalOf(e)
                   s == CresTotalOf(e)
               IN  (p > 0 /\ s > 0 /\ Abs(p - s) <= Eps) => RecordsOf(e) = <<>>

\* the Invalid EID record of the Crescent row c
InvalidRecordOf(c) ==
    [EID |-> <<>>, Name_PLX |-> <<>>, Name_CRES |-> c.Name, Badge |-> c.Badge,
     Line |-> c.Line, PLX_Hours |-> 0, CRES_Hours |-> c.Payable_Hours,
     Diff |-> 0 - c.Payable_Hours, Category |-> "Invalid EID",
     DayOfWeek |-> "", Status |-> "", Notes |-> InvalidNote]

\* a Crescent row with an empty or invalid identifier and hours > 0
Offending(c) == (c.EID = <<>> \/ ~c.EID_Valid) /\ c.Payable_Hours > 0

\* C3: every Crescent row with an empty or invalid identifier and payable
\* hours > 0 becomes exactly one Invalid EID record (one per offending row,
\* no deduplication) with PLX hours 0, Crescent hours of the row and
\* difference = -Crescent hours.
C3_InvalidRowsRouted ==
    Classified =>
        \A i \in DOMAIN cres_df :
            Offending(cres_df[i]) =>
                Cardinality({j \in DOMAIN detected :
                                detected[j] = InvalidRecordOf(cres_df[i])})
                = Cardinality({k \in DOMAIN cres_df :
                                  /\ Offending(cres_df[k])
                                  /\ InvalidRecordOf(cres_df[k]) = InvalidRecordOf(cres_df[i])})

\* a discrepancy row without its reviewer fields
ComputedFields(r) == [r EXCEPT !.Status = "", !.DayOfWeek = "", !.Notes = ""]

\* the rows of a source table that carry identifier e
RowsOf(t, e) == SelectSeq(t, LAMBDA r : r.EID = e)

\* C4: when classification is re-run after an edit to one source that does
\* not affect identifier X (X's source rows and every computed field of X's
\* discrepancy row are the same, the computed table changed elsewhere, and
\* the reviewer touched no cell of the discrepancy editor in this run), the
\* reviewer fields entered on X's row are unchanged on the recomputed row
\* with the same (identifier, category).
C4_AnnotationsPreserved ==
    [][ ( /\ run_stage = "done" /\ run_stage' = "done"
          /\ plx_df' # plx_df \/ cres_df' # cres_df
          /\ detected' # detected
          /\ disc_df' = disc_computed' )
        => \A i \in DOMAIN disc_df : \A j \in DOMAIN disc_df' :
               ( /\ ComputedFields(disc_df[i]) = ComputedFields(disc_df'[j])
                 /\ RowsOf(plx_df, disc_df[i].EID) = RowsOf(plx_df', disc_df[i].EID)
                 /\ RowsOf(cres_df, disc_df[i].EID) = RowsOf(cres_df', disc_df[i].EID) )
               => /\ disc_df'[j].Status = disc_df[i].Status
                  /\ disc_df'[j].DayOfWeek = disc_df[i].DayOfWeek
                  /\ disc_df'[j].Notes = disc_df[i].Notes ]_vars

\* C9 (streamlit_app): the summary has one line per row marked as an error
\* and is the non-empty sentinel text when no row qualifies.
C9_SummaryLinesOrSentinel ==
    summary_text.shown =>
        LET q == SelectSeq(disc_df, LAMBDA r : r.Status = "Crescent Error")
        IN  IF q = <<>> THEN summary_text.lines # <<>>
            ELSE Len(summary_text.lines) = Len(q)

ComponentsKept(loaded, re) ==
    /\ Len(re) = Len(loaded)
    /\ \A i \in DOMAIN loaded :
           /\ re[i].Reg_Hours = loaded[i].Reg_Hours
           /\ re[i].OT_Hours = loaded[i].OT_Hours

\* C11: the recompute pass on the table load_plx produced from the uploaded
\* workbook, with no edit in between, leaves Reg_Hours and OT_Hours of every
\* record as load_plx stored them.
C11_RecomputeKeepsComponents ==
    plx_file.present =>
        ComponentsKept(PlxNormalized[plx_file],
                       recompute_plx(PlxCells(PlxNormalized[plx_file])))

\* the rows of the aggregate g that carry identifier e
GroupsOf(g, e) == SelectSeq(g, LAMBDA r : r.EID = e)

\* the non-empty identifiers of the table t
IdsOf(t) == {t[i].EID : i \in DOMAIN t} \ {<<>>}

\* C12: summarize_plx returns at most one row for each identifier of the PLX
\* table and summarize_crescent exactly one row for each non-empty
\* identifier of the Crescent table.
C12_OneRowPerIdentifier ==
    /\ \A e \in IdsOf(plx_df) : Len(GroupsOf(summarize_plx(plx_df), e)) <= 1
    /\ \A e \in IdsOf(cres_df) : Len(GroupsOf(summarize_crescent(cres_df), e)) = 1

\* the orders of the rows of the table t
RowOrders(t) == {[i \in DOMAIN t |-> t[f[i]]] : f \in Permutations(DOMAIN t)}

\* C13: for every order of the rows of either source the aggregates are the
\* same and so are the discrepancy records classified from them, with their
\* name, badge and line fields.
C13_OrderIndependent ==
    /\ \A p \in RowOrders(plx_df) :
           /\ Range(summarize_plx(p)) = Range(summarize_plx(plx_df))
           /\ Classified =>
                  Range(detect_discrepancies(p, cres_df)) = Range(detected)
    /\ \A c \in RowOrders(cres_df) :
           /\ Range(summarize_crescent(c)) = Range(summarize_crescent(cres_df))
           /\ Classified =>
                  Range(detect_discrepancies(plx_df, c)) = Range(detected)

\* C14: in every session state the identifier of every record of both
\* sources is empty or a non-empty text of decimal digits.
C14_IdentifierDigitsOrEmpty ==
    /\ \A i \in DOMAIN plx_df : plx_df[i].EID = <<>> \/ AllDigits(plx_df[i].EID)
    /\ \A i \in DOMAIN cres_df : cres_df[i].EID = <<>> \/ AllDigits(cres_df[i].EID)

\* a PLX identifier the reviewer typed as "E7", next to a Crescent
\* identifier taken from a badge
C14_Witness ==
    /\ \E i \in DOMAIN plx_df : plx_df[i].EID = <<"7">>
    /\ \E i \in DOMAIN cres_df : cres_df[i].EID # <<>> /\ cres_df[i].EID_Valid

\* the text b is PLX-<k digits>-<3 letters>, letters in either case
StrictBadge(b, k) ==
    /\ Len(b) = k + 8
    /\ \A i \in 1..3 : UpperChar(b[i]) = <<"P", "L", "X">>[i]
    /\ b[4] = "-" /\ b[k + 5] = "-"
    /\ \A i \in 5..(k + 4) : b[i] \in Digits
    /\ \A i \in (k + 6)..(k + 8) : b[i] \in Letters

\* b[i..j] is a maximal run of digits of b
MaximalDigitRun(b, i, j) ==
    /\ i <= j
    /\ \A n \in i..j : b[n] \in Digits
    /\ i = 1 \/ b[i - 1] \notin Digits
    /\ j = Len(b) \/ b[j + 1] \notin Digits

\* the starts and ends of the runs of 3 or more digits of b
LongRuns(b) ==
    {p \in (1..Len(b)) \X (1..Len(b)) :
        MaximalDigitRun(b, p[1], p[2]) /\ p[2] - p[1] + 1 >= 3}

\* what the badge text b must resolve to
Resolution(b) ==
    IF \E k \in 1..Len(b) : StrictBadge(b, k)
    THEN <<SubSeq(b, 5, Len(b) - 4), TRUE>>
    ELSE IF LongRuns(b) # {}
    THEN LET p == CHOOSE q \in LongRuns(b) : \A r \in LongRuns(b) : q[1] <= r[1]
         IN  <<SubSeq(b, p[1], p[2]), FALSE>>
    ELSE <<<<>>, FALSE>>

\* the badge texts of the uploaded Crescent report, missing cells as ""
UploadedBadges ==
    IF cres_file.present /\ "Badge" \in Range(cres_file.columns)
    THEN {IF IsMissing(cres_file.rows[i]["Badge"]) THEN <<>>
          ELSE cres_file.rows[i]["Badge"] : i \in DOMAIN cres_file.rows}
    ELSE {}

\* C15: for every badge of the uploaded report extract_eid_from_badge gives
\* (digit group, valid) when the trimmed badge is PLX-<digits>-<3 letters>
\* in either case, otherwise (first run of 3 or more digits, not valid) or
\* ("", not valid); a valid result has a non-empty identifier.
C15_BadgeResolution ==
    \A b \in UploadedBadges :
        /\ extract_eid_from_badge(Str(b)) = Resolution(Strip(b))
        /\ extract_eid_from_badge(Str(b))[2] => extract_eid_from_badge(Str(b))[1] # <<>>

\* a report whose first badge matches after trimming and whose second holds
\* no digit, loaded into the session
C15_Witness ==
    /\ Len(cres_df) = 2
    /\ cres_file.present
    /\ Head(cres_file.rows[1]["Badge"]) = " "
    /\ cres_df[1].EID = <<"1">> /\ cres_df[1].EID_Valid
    /\ cres_df[2].EID = <<>> /\ ~cres_df[2].EID_Valid

\* the uploaded Crescent report has no badge column
NoBadgeColumn ==
    /\ cres_file.present
    /\ \A i \in DOMAIN cres_file.columns : ~HeaderIsBadge(cres_file.columns[i])

\* C16: when the uploaded Crescent report has no identifying column the
\* normalizer does not fail: its rows are in the session, each with an empty
\* identifier.
C16_NoIdColumnStillLoads ==
    NoBadgeColumn =>
        /\ run_stage # "load_error"
        /\ Len(cres_df) = Len(cres_file.rows)
        /\ \A i \in DOMAIN cres_df : cres_df[i].EID = <<>>

\* the stages of a run that an exception ended
FatalStages == {"load_error", "merge_error", "metric_error"}

\* C17: a run without both raw tables ends in an InputError and leaves no
\* discrepancy table, totals or summary, and no run with a raw table ends in
\* an exception.
C17_InputErrorOnly ==
    /\ (~plx_file.present /\ ~cres_file.present /\ run_stage # "init") =>
           /\ run_stage = "input_error"
           /\ disc_df = <<>> /\ totals_msg = "" /\ ~summary_text.shown
    /\ (plx_file.present \/ cres_file.present) => run_stage \notin FatalStages

\* C18: every hour field of every normalized record of the session is
\* non-negative.
C18_HoursNonNegative ==
    /\ \A i \in DOMAIN plx_df :
           /\ plx_df[i].Reg_Hours >= 0
           /\ plx_df[i].OT_Hours >= 0
           /\ plx_df[i].Total_Hours >= 0
    /\ \A i \in DOMAIN cres_df : cres_df[i].Payable_Hours >= 0

\* C19: after every classification the discrepancy table of the session has
\* exactly the rows detect_discrepancies computed from the current sources,
\* reviewer fields aside.
C19_RowCountKept ==
    run_stage = "done" =>
        /\ Len(disc_df) = Len(detected)
        /\ \A i \in DOMAIN disc_df :
               i \in DOMAIN detected
               => ComputedFields(disc_df[i]) = ComputedFields(detected[i])

\* the identifiers and hours of the review table t
SourceFields(t) ==
    [i \in DOMAIN t |->
        [EID |-> t[i].EID, Excel_Hours |-> t[i].Excel_Hours,
         Payable_hours |-> t[i].Payable_hours]]

\* C20: when corrected totals are computed, the review table of the session
\* has the identifiers and hours of the table built from the current files
\* and day.
C20_ReviewTableFresh ==
    validation.shown =>
        SourceFields(review_df) = SourceFields(build_review_df(SessionComparison))

\* one hour in ticks: the tolerance Eps is 1e-6 hour
TicksPerHour == Eps * 1000000

\* every hour value of the two tables is a whole number of hours
WholeHours(plx, cres) ==
    /\ \A i \in DOMAIN plx : plx[i].Total_Hours % TicksPerHour = 0
    /\ \A i \in DOMAIN cres : cres[i].Payable_Hours % TicksPerHour = 0

\* C21: for two tables with whole-number hours, when detect_discrepancies
\* returns no record, totals() returns equal PLX and Crescent totals.
C21_NoRecordMeansEqualTotals ==
    (Classified /\ WholeHours(plx_df, cres_df) /\ detected = <<>>) =>
        totals(plx_df, cres_df)[1] = totals(plx_df, cres_df)[2]

====
